---------------------------- MODULE Spec2Model ----------------------------
(***************************************************************************)
(* The mining worker of sensibility/miner/parse_worker.py: the loop of     *)
(* main() that pops a file hash from the parse queue, fetches and parses   *)
(* the source, persists the result, merges the literal codepoint counts    *)
(* into the shared sorted set and acknowledges the item, together with the *)
(* pure functions it uses (parse_js, in_uplus_notation, clean_literal,     *)
(* clean_template, find_literals, count_codepoints_in_literals,            *)
(* insert_count).                                                          *)
(*                                                                         *)
(* Every statement of the loop body is one step of a worker, so that a     *)
(* KeyboardInterrupt or any other exception can arrive between any two of  *)
(* them, as it can in CPython.  The logging calls change no state and are  *)
(* folded into the statement that precedes them.                           *)
(***************************************************************************)
EXTENDS Integers, Sequences, FiniteSets, TLC

\* ------------------------------------------------------------------ bounds

\* Number of file hashes queued for the single worker of Spec.
NumItems == 2

\* How many times in all the environment puts a file hash back on the parse
\* queue (a replay from the error queue, or a crash redelivery).
MaxRedeliveries == 1

\* Number of concurrent worker processes of SpecConcurrent; they drain
\* NumWorkers + 1 file hashes.
NumWorkers == 2

\* No file hash: the value of file_hash before the first worker.get().
NoItem == 0

\* ------------------------------------------------------- sequences, helpers

Range(s) == {s[k] : k \in 1..Len(s)}

Last(s) == s[Len(s)]

Contains(s, e) == \E k \in 1..Len(s) : s[k] = e

\* e1 occurs in s somewhere before an occurrence of e2.
Before(s, e1, e2) == \E j, k \in 1..Len(s) : j < k /\ s[j] = e1 /\ s[k] = e2

Count(s, e) == Cardinality({k \in 1..Len(s) : s[k] = e})

\* Python's s[a:-b] for a sequence s: drops a elements in front and b at the
\* end; the empty sequence when nothing is left.
Slice(s, a, b) ==
    IF Len(s) - b < a + 1 THEN <<>> ELSE SubSeq(s, a + 1, Len(s) - b)

\* ------------------------------------------------------------- code points

QUOTE == 39
DQUOTE == 34
BACKQUOTE == 96
DOLLAR == 36
LBRACE == 123
RBRACE == 125
SPACE == 32
COMMA == 44
LETTER_A == 65
KISS == 128536

HexDigits ==
    <<"0", "1", "2", "3", "4", "5", "6", "7",
      "8", "9", "A", "B", "C", "D", "E", "F">>

\* '{:X}'.format(n): the upper-case hexadecimal digits of n.
RECURSIVE ToHex(_)
ToHex(n) ==
    IF n < 16 THEN <<HexDigits[n + 1]>>
    ELSE ToHex(n \div 16) \o <<HexDigits[(n % 16) + 1]>>

\* Left-pads digits with the fill character up to the given width.
RECURSIVE PadLeft(_, _, _)
PadLeft(digits, width, fill) ==
    IF Len(digits) >= width THEN digits
    ELSE PadLeft(<<fill>> \o digits, width, fill)

\* in_uplus_notation without its branch on the ordinal: 'U+{:5X}' throughout.
in_uplus_notation_width5(ordinal) ==
    <<"U", "+">> \o PadLeft(ToHex(ordinal), 5, " ")

\* in_uplus_notation: 'U+{:5X}' above 0xFFFF (width 5, padded with spaces),
\* 'U+{:04X}' otherwise (width 4, padded with zeros).
in_uplus_notation(ordinal) ==
    IF ordinal > 65535
    THEN <<"U", "+">> \o PadLeft(ToHex(ordinal), 5, " ")
    ELSE <<"U", "+">> \o PadLeft(ToHex(ordinal), 4, "0")


\* ------------------------------------------------ literal codepoint profiler

Tok(type, value) == [type |-> type, value |-> value]

\* clean_literal's assertion: a quoted literal has at least its two quotes.
clean_literal_asserts(literal) == Len(literal) >= 2

\* clean_literal: literal[1:-1].
clean_literal(literal) == Slice(literal, 1, 1)

\* str.endswith('${')
EndsWithInterpolation(literal) ==
    /\ Len(literal) >= 2
    /\ literal[Len(literal) - 1] = DOLLAR
    /\ literal[Len(literal)] = LBRACE

\* clean_template without the test for a trailing '${': end_trim is always 1.
clean_template_trim1(literal) == Slice(literal, 1, 1)

\* clean_template: literal[1:-end_trim], end_trim 2 after '${' and 1 otherwise.
clean_template(literal) ==
    IF EndsWithInterpolation(literal)
    THEN Slice(literal, 1, 2)
    ELSE Slice(literal, 1, 1)

\* find_literals: the cleaned text of every String and Template token, in order.
RECURSIVE find_literals(_)
find_literals(tokens) ==
    IF tokens = <<>> THEN <<>>
    ELSE LET token == Head(tokens)
             rest == find_literals(Tail(tokens))
         IN  IF token.type = "String"
             THEN <<clean_literal(token.value)>> \o rest
             ELSE IF token.type = "Template"
                  THEN <<clean_template(token.value)>> \o rest
                  ELSE rest

\* A String token that trips the assertion of clean_literal.
find_literals_raises(tokens) ==
    \E k \in 1..Len(tokens) :
        tokens[k].type = "String" /\ ~clean_literal_asserts(tokens[k].value)

\* Counter()[key] += n: a missing key counts as zero.
CounterGet(counter, key) == IF key \in DOMAIN counter THEN counter[key] ELSE 0

CounterAdd(counter, key, n) ==
    [k \in DOMAIN counter \cup {key} |->
        IF k = key THEN CounterGet(counter, key) + n ELSE counter[k]]

EmptyCounter == [k \in {} |-> 0]

RECURSIVE CountScalars(_, _)
CountScalars(literal, counter) ==
    IF literal = <<>> THEN counter
    ELSE CountScalars(Tail(literal),
                      CounterAdd(counter, in_uplus_notation(Head(literal)), 1))

RECURSIVE CountLiterals(_, _)
CountLiterals(literals, counter) ==
    IF literals = <<>> THEN counter
    ELSE CountLiterals(Tail(literals), CountScalars(Head(literals), counter))

\* count_codepoints_in_literals: one count per scalar value of every literal.
count_codepoints_in_literals(tokens) ==
    CountLiterals(find_literals(tokens), EmptyCounter)

\* A ZADD in place of the ZINCRBY: the score is overwritten, not incremented.
zincrby_overwrite(zset, member, increment) ==
    [k \in DOMAIN zset \cup {member} |->
        IF k = member THEN increment ELSE zset[k]]

\* ZINCRBY key member increment: creates the member when it is missing.
zincrby(zset, member, increment) == CounterAdd(zset, member, increment)

\* insert_count: one ZINCRBY per label of the counter, queued on a pipeline
\* and sent by pipe.execute() as one MULTI/EXEC transaction.
RECURSIVE insert_count_over(_, _, _)
insert_count_over(labels, counter, zset) ==
    IF labels = {} THEN zset
    ELSE LET label == CHOOSE l \in labels : TRUE
         IN  insert_count_over(labels \ {label}, counter,
                               zincrby(zset, label, counter[label]))

\* insert_count writing the counter of the file over the sorted set.
insert_count_replace(counter, zset) ==
    insert_count_over(DOMAIN counter, counter, EmptyCounter)

insert_count(counter, zset) == insert_count_over(DOMAIN counter, counter, zset)

\* ------------------------------------------------------------ the corpus

\* void 0;
TokensVoid0 ==
    <<Tok("Keyword", <<118, 111, 105, 100>>),
      Tok("Numeric", <<48>>),
      Tok("Punctuator", <<59>>)>>

\* ""; ''; `${hello}, ${world}`; '<kiss>';
TokensLiterals ==
    <<Tok("String", <<DQUOTE, DQUOTE>>),
      Tok("Punctuator", <<59>>),
      Tok("String", <<QUOTE, QUOTE>>),
      Tok("Punctuator", <<59>>),
      Tok("Template", <<BACKQUOTE, DOLLAR, LBRACE>>),
      Tok("Identifier", <<104>>),
      Tok("Template", <<RBRACE, COMMA, SPACE, DOLLAR, LBRACE>>),
      Tok("Identifier", <<119>>),
      Tok("Template", <<RBRACE, BACKQUOTE>>),
      Tok("Punctuator", <<59>>),
      Tok("String", <<QUOTE, KISS, QUOTE>>),
      Tok("Punctuator", <<59>>)>>

\* 'A A';
TokensSpaced ==
    <<Tok("String", <<QUOTE, LETTER_A, SPACE, LETTER_A, QUOTE>>),
      Tok("Punctuator", <<59>>)>>

\* The source texts a file hash can stand for.  "void0", "literals" and
\* "spaced" parse; "syntax" is malformed JavaScript; "crash" makes the parser
\* process die with another exit status; "garbage" makes it exit 0 with a
\* payload that lacks the tokens field.
ParsableSources == {"void0", "literals", "spaced"}
ExpectedSources == ParsableSources \cup {"syntax"}
Sources == ExpectedSources \cup {"crash", "garbage"}

\* The external parser process, node parse-js <file>: its exit status and
\* the JSON payload it prints.
node(source) ==
    CASE source = "void0" ->
            [rc |-> 0, stdout |-> [tokens |-> TokensVoid0, ast |-> "Program"]]
      [] source = "literals" ->
            [rc |-> 0, stdout |-> [tokens |-> TokensLiterals, ast |-> "Program"]]
      [] source = "spaced" ->
            [rc |-> 0, stdout |-> [tokens |-> TokensSpaced, ast |-> "Program"]]
      [] source = "syntax" -> [rc |-> 1, stdout |-> [error |-> "SyntaxError"]]
      [] source = "crash" -> [rc |-> 2, stdout |-> [error |-> "Abort"]]
      [] OTHER -> [rc |-> 0, stdout |-> [ast |-> "Program"]]

\* parse_js with except sh.ErrorReturnCode in place of sh.ErrorReturnCode_1:
\* every non-zero exit status becomes ParseError.
parse_js_any_exit(source) ==
    LET r == node(source)
    IN  IF r.rc # 0 THEN [raised |-> "ParseError"]
        ELSE IF ~({"tokens", "ast"} \subseteq DOMAIN r.stdout)
             THEN [raised |-> "KeyError"]
             ELSE [raised |-> "none",
                   tokens |-> r.stdout.tokens, ast |-> r.stdout.ast]

\* parse_js: sh raises ErrorReturnCode_<n> for exit status n # 0, and only
\* ErrorReturnCode_1 is turned into ParseError; result['tokens'] and
\* result['ast'] raise KeyError when the payload lacks the field.
parse_js(source) ==
    LET r == node(source)
    IN  IF r.rc = 1 THEN [raised |-> "ParseError"]
        ELSE IF r.rc # 0 THEN [raised |-> "ErrorReturnCode"]
        ELSE IF ~({"tokens", "ast"} \subseteq DOMAIN r.stdout)
             THEN [raised |-> "KeyError"]
             ELSE [raised |-> "none",
                   tokens |-> r.stdout.tokens, ast |-> r.stdout.ast]

\* ------------------------------------------------------------- the state

VARIABLES
    src,          \* corpus store: file hash -> source text (get_source)
    parsed,       \* corpus store: file hashes with a ParsedSource row
    failures,     \* corpus store: file hashes with a failure marker
    char_count,   \* the CHAR_COUNT sorted set: label -> score
    queue,        \* the parse queue, head first
    processing,   \* popped and not yet acknowledged: file hash -> copies
    aborted,      \* the error queue QUEUE_ERRORS, oldest first
    pc,           \* per worker: the statement of main() it is about to run
    file_hash,    \* per worker: the local file_hash
    trace,        \* per worker: what happened to file_hash since worker.get()
    redelivered,  \* times the environment put a file hash back on the queue
    acked,        \* per file hash: times worker.acknowledge() completed
    merged,       \* per file hash: times insert_count() completed
    arg,          \* the argument of the function or method being applied
    ret,          \* what it returned or raised
    tables,       \* the rows of the corpus database (Corpus)
    handles       \* the file objects of the tokenizer adapter

vars ==
    <<src, parsed, failures, char_count, queue, processing, aborted,
      pc, file_hash, trace, redelivered, acked, merged,
      arg, ret, tables, handles>>

\* The worker processes and the file hashes of the corpus.
Workers == DOMAIN pc

Items == DOMAIN src

stores == <<src, parsed, failures, char_count, queue, processing, aborted>>

history == <<redelivered, acked, merged>>

\* What the worker loop never touches: the state of the functions, the corpus
\* database and the tokenizer adapter that are exercised on their own.
aside == <<arg, ret, tables, handles>>

\* The state of the worker loop and of everything it reads and writes.
worker_vars ==
    <<src, parsed, failures, char_count, queue, processing, aborted,
      pc, file_hash, trace, redelivered, acked, merged>>

\* The statements inside the second try block of main().
TryBody == {"fetch", "parse", "persist", "merge"}

\* The statements of the except and else clauses of that try statement.
Clauses == {"kbd_publish", "pe_setfail", "pe_ack", "ex_publish", "ex_ack", "else_ack"}

\* A worker that holds a dequeued, not yet settled file hash.
InFlight == {"decode"} \cup TryBody \cup Clauses

\* A worker whose main() has returned or died.
Ended == {"stopped", "killed", "crashed"}

\* The except KeyboardInterrupt clause without its break.
NextStmtNoBreak(p) ==
    CASE p = "get" -> "decode"
      [] p = "decode" -> "fetch"
      [] p = "fetch" -> "parse"
      [] p = "parse" -> "persist"
      [] p = "persist" -> "merge"
      [] p = "merge" -> "else_ack"
      [] p = "else_ack" -> "get"
      [] p = "kbd_publish" -> "get"
      [] p = "pe_setfail" -> "pe_ack"
      [] p = "pe_ack" -> "get"
      [] p = "ex_publish" -> "ex_ack"
      [] p = "ex_ack" -> "get"
      [] OTHER -> p

\* insert_count called before db.add_parsed_source.
NextStmtMergeFirst(p) ==
    CASE p = "get" -> "decode"
      [] p = "decode" -> "fetch"
      [] p = "fetch" -> "parse"
      [] p = "parse" -> "merge"
      [] p = "merge" -> "persist"
      [] p = "persist" -> "else_ack"
      [] p = "else_ack" -> "get"
      [] p = "kbd_publish" -> "stopped"
      [] p = "pe_setfail" -> "pe_ack"
      [] p = "pe_ack" -> "get"
      [] p = "ex_publish" -> "ex_ack"
      [] p = "ex_ack" -> "get"
      [] OTHER -> p

\* main() with the acknowledgment moved before insert_count.
NextStmtSkipMerge(p) ==
    CASE p = "get" -> "decode"
      [] p = "decode" -> "fetch"
      [] p = "fetch" -> "parse"
      [] p = "parse" -> "persist"
      [] p = "persist" -> "else_ack"
      [] p = "else_ack" -> "get"
      [] p = "kbd_publish" -> "stopped"
      [] p = "pe_setfail" -> "pe_ack"
      [] p = "pe_ack" -> "get"
      [] p = "ex_publish" -> "ex_ack"
      [] p = "ex_ack" -> "get"
      [] OTHER -> p

\* main() without the call of add_parsed_source.
NextStmtSkipPersist(p) ==
    CASE p = "get" -> "decode"
      [] p = "decode" -> "fetch"
      [] p = "fetch" -> "parse"
      [] p = "parse" -> "merge"
      [] p = "merge" -> "else_ack"
      [] p = "else_ack" -> "get"
      [] p = "kbd_publish" -> "stopped"
      [] p = "pe_setfail" -> "pe_ack"
      [] p = "pe_ack" -> "get"
      [] p = "ex_publish" -> "ex_ack"
      [] p = "ex_ack" -> "get"
      [] OTHER -> p

\* Where control goes when the statement at p completes normally.
NextStmt(p) ==
    CASE p = "get" -> "decode"
      [] p = "decode" -> "fetch"
      [] p = "fetch" -> "parse"
      [] p = "parse" -> "persist"
      [] p = "persist" -> "merge"
      [] p = "merge" -> "else_ack"
      [] p = "else_ack" -> "get"
      [] p = "kbd_publish" -> "stopped"
      [] p = "pe_setfail" -> "pe_ack"
      [] p = "pe_ack" -> "get"
      [] p = "ex_publish" -> "ex_ack"
      [] p = "ex_ack" -> "get"
      [] OTHER -> p

\* The except ParseError clause without its db.set_failure(file_hash).
HandlerSkipSetFailure(p, exc) ==
    IF p = "get"
    THEN IF exc = "KeyboardInterrupt" THEN "stopped" ELSE "crashed"
    ELSE IF p \in TryBody
         THEN CASE exc = "KeyboardInterrupt" -> "kbd_publish"
                [] exc = "ParseError" -> "pe_ack"
                [] OTHER -> "ex_publish"
         ELSE IF exc = "KeyboardInterrupt" THEN "killed" ELSE "crashed"

\* The bare except clause without its aborted << file_hash.
HandlerSkipPublish(p, exc) ==
    IF p = "get"
    THEN IF exc = "KeyboardInterrupt" THEN "stopped" ELSE "crashed"
    ELSE IF p \in TryBody
         THEN CASE exc = "KeyboardInterrupt" -> "kbd_publish"
                [] exc = "ParseError" -> "pe_setfail"
                [] OTHER -> "ex_ack"
         ELSE IF exc = "KeyboardInterrupt" THEN "killed" ELSE "crashed"

\* The try statement without its except ParseError clause.
HandlerParseErrorAsFault(p, exc) ==
    IF p = "get"
    THEN IF exc = "KeyboardInterrupt" THEN "stopped" ELSE "crashed"
    ELSE IF p \in TryBody
         THEN CASE exc = "KeyboardInterrupt" -> "kbd_publish"
                [] OTHER -> "ex_publish"
         ELSE IF exc = "KeyboardInterrupt" THEN "killed" ELSE "crashed"

\* One try statement around worker.get() and the body: an interrupt of the
\* idle pop runs the except KeyboardInterrupt clause that publishes.
HandlerIdlePublish(p, exc) ==
    IF p = "get" \/ p \in TryBody
    THEN CASE exc = "KeyboardInterrupt" -> "kbd_publish"
           [] exc = "ParseError" -> "pe_setfail"
           [] OTHER -> IF p = "get" THEN "crashed" ELSE "ex_publish"
    ELSE IF exc = "KeyboardInterrupt" THEN "killed" ELSE "crashed"

\* Where control goes when the statement at p raises exc: the two try
\* statements of main().  worker.get() is guarded against KeyboardInterrupt
\* only; the second try guards its body, not the decode before it and not
\* its own except and else clauses; what no clause catches leaves main().
Handler(p, exc) ==
    IF p = "get"
    THEN IF exc = "KeyboardInterrupt" THEN "stopped" ELSE "crashed"
    ELSE IF p \in TryBody
         THEN CASE exc = "KeyboardInterrupt" -> "kbd_publish"
                [] exc = "ParseError" -> "pe_setfail"
                [] OTHER -> "ex_publish"
         ELSE IF exc = "KeyboardInterrupt" THEN "killed" ELSE "crashed"

\* The entry a raised exception leaves in the worker's trace: caught by a
\* clause of the second try, or not.
Raised(p, exc) ==
    IF p \in TryBody THEN exc
    ELSE IF exc = "KeyboardInterrupt" THEN "UncaughtInterrupt" ELSE "Uncaught"

\* ------------------------------------------------------- queues and stores

\* WorkQueue.get(): pops the head of the queue into the processing list.
WorkQueueGet(i) ==
    /\ queue # <<>>
    /\ i = Head(queue)
    /\ queue' = Tail(queue)
    /\ processing' = [processing EXCEPT ![i] = @ + 1]

\* WorkQueue.acknowledge(i): removes i from the processing list.
WorkQueueAcknowledge(i) ==
    /\ processing' = [processing EXCEPT ![i] = IF @ > 0 THEN @ - 1 ELSE 0]
    /\ acked' = [acked EXCEPT ![i] = @ + 1]

\* aborted << i
Publish(i) == aborted' = Append(aborted, i)

\* Database.add_parsed_source: an upsert of the row of the file hash.
add_parsed_source(i) == parsed' = parsed \cup {i}

\* Database.set_failure: marks the file hash as failed.
set_failure(i) == failures' = failures \cup {i}

\* ------------------------------------------------------------ the worker

Goto(w, p) == pc' = [pc EXCEPT ![w] = p]

Log(w, e) == trace' = [trace EXCEPT ![w] = Append(@, e)]

\* file_hash = worker.get()
Get(w) ==
    /\ pc[w] = "get"
    /\ \E i \in Items :
        /\ WorkQueueGet(i)
        /\ file_hash' = [file_hash EXCEPT ![w] = i]
    /\ trace' = [trace EXCEPT ![w] = <<>>]
    /\ Goto(w, NextStmt("get"))
    /\ UNCHANGED <<aside, src, parsed, failures, char_count, aborted, history>>

\* file_hash = file_hash.decode('utf-8')
Decode(w) ==
    /\ pc[w] = "decode"
    /\ Goto(w, NextStmt("decode"))
    /\ UNCHANGED <<aside, stores, file_hash, trace, history>>

\* source_code = db.get_source(file_hash)
Fetch(w) ==
    /\ pc[w] = "fetch"
    /\ Log(w, "fetch")
    /\ Goto(w, NextStmt("fetch"))
    /\ UNCHANGED <<aside, stores, file_hash, history>>

\* tokens, ast = parse_js(source_code)
Parse(w) ==
    /\ pc[w] = "parse"
    /\ LET result == parse_js(src[file_hash[w]])
       IN  IF result.raised = "none"
           THEN /\ Log(w, "parse")
                /\ Goto(w, NextStmt("parse"))
           ELSE /\ trace' = [trace EXCEPT ![w] =
                        @ \o <<"exit", Raised("parse", result.raised)>>]
                /\ Goto(w, Handler("parse", result.raised))
    /\ UNCHANGED <<aside, stores, file_hash, history>>

\* db.add_parsed_source(ParsedSource(file_hash, tokens, ast))
Persist(w) ==
    /\ pc[w] = "persist"
    /\ add_parsed_source(file_hash[w])
    /\ Log(w, "persist")
    /\ Goto(w, NextStmt("persist"))
    /\ UNCHANGED <<aside, src, failures, char_count, queue, processing, aborted,
                   file_hash, history>>

\* insert_count(count_codepoints_in_literals(tokens))
Merge(w) ==
    /\ pc[w] = "merge"
    /\ LET tokens == parse_js(src[file_hash[w]]).tokens
       IN  IF find_literals_raises(tokens)
           THEN /\ Log(w, Raised("merge", "AssertionError"))
                /\ Goto(w, Handler("merge", "AssertionError"))
                /\ UNCHANGED <<char_count, merged>>
           ELSE /\ char_count' =
                        insert_count(count_codepoints_in_literals(tokens), char_count)
                /\ merged' = [merged EXCEPT ![file_hash[w]] = @ + 1]
                /\ Log(w, "merge")
                /\ Goto(w, NextStmt("merge"))
    /\ UNCHANGED <<aside, src, parsed, failures, queue, processing, aborted,
                   file_hash, redelivered, acked>>

\* worker.acknowledge(file_hash), in the else clause, the except ParseError
\* clause or the bare except clause.
Acknowledge(w) ==
    /\ pc[w] \in {"else_ack", "pe_ack", "ex_ack"}
    /\ WorkQueueAcknowledge(file_hash[w])
    /\ Log(w, "ack")
    /\ Goto(w, NextStmt(pc[w]))
    /\ UNCHANGED <<aside, src, parsed, failures, char_count, queue, aborted,
                   file_hash, redelivered, merged>>

\* aborted << file_hash, in the except KeyboardInterrupt clause (followed by
\* break) or in the bare except clause.
PublishAborted(w) ==
    /\ pc[w] \in {"kbd_publish", "ex_publish"}
    /\ Publish(file_hash[w])
    /\ Log(w, "publish")
    /\ Goto(w, NextStmt(pc[w]))
    /\ UNCHANGED <<aside, src, parsed, failures, char_count, queue, processing,
                   file_hash, history>>

\* db.set_failure(file_hash), in the except ParseError clause.
SetFailure(w) ==
    /\ pc[w] = "pe_setfail"
    /\ set_failure(file_hash[w])
    /\ Log(w, "setfail")
    /\ Goto(w, NextStmt("pe_setfail"))
    /\ UNCHANGED <<aside, src, parsed, char_count, queue, processing, aborted,
                   file_hash, history>>

\* A KeyboardInterrupt (SIGINT) delivered to the worker process while it is
\* at some statement of the loop.
Interrupt(w) ==
    /\ pc[w] \notin Ended
    /\ Goto(w, Handler(pc[w], "KeyboardInterrupt"))
    /\ IF pc[w] = "get" THEN UNCHANGED trace
       ELSE Log(w, Raised(pc[w], "KeyboardInterrupt"))
    /\ UNCHANGED <<aside, stores, file_hash, history>>

\* Any other exception raised by the statement the worker is at: the store
\* or the queue is unavailable, the hash is not valid UTF-8, a temporary
\* file cannot be written.  The statement has no effect.
Fault(w) ==
    /\ pc[w] \notin Ended
    /\ Goto(w, Handler(pc[w], "Exception"))
    /\ IF pc[w] = "get" THEN UNCHANGED trace
       ELSE Log(w, Raised(pc[w], "Exception"))
    /\ UNCHANGED <<aside, stores, file_hash, history>>

\* The worker process is started again: main() up to the loop.
Start(w) ==
    /\ pc[w] \in Ended
    /\ pc' = [pc EXCEPT ![w] = "get"]
    /\ file_hash' = [file_hash EXCEPT ![w] = NoItem]
    /\ trace' = [trace EXCEPT ![w] = <<>>]
    /\ UNCHANGED <<aside, stores, history>>

\* ------------------------------------------------------- the environment

Held(i) == \E w \in Workers : file_hash[w] = i /\ pc[w] \in InFlight

Redeliverable(i) ==
    /\ redelivered < MaxRedeliveries
    /\ ~Held(i)
    /\ i \notin Range(queue)

RemoveFirst(s, e) ==
    LET k == CHOOSE j \in 1..Len(s) : s[j] = e /\ \A h \in 1..(j - 1) : s[h] # e
    IN  SubSeq(s, 1, k - 1) \o SubSeq(s, k + 1, Len(s))

\* The reconciler replays an entry of the error queue onto the parse queue.
Replay(i) ==
    /\ Redeliverable(i)
    /\ i \in Range(aborted)
    /\ aborted' = RemoveFirst(aborted, i)
    /\ queue' = Append(queue, i)
    /\ redelivered' = redelivered + 1
    /\ UNCHANGED <<aside, src, parsed, failures, char_count, processing,
                   pc, file_hash, trace, acked, merged>>

\* The queue transport redelivers an item that a dead worker left
\* unacknowledged in the processing list.
Redeliver(i) ==
    /\ Redeliverable(i)
    /\ processing[i] > 0
    /\ processing' = [processing EXCEPT ![i] = @ - 1]
    /\ queue' = Append(queue, i)
    /\ redelivered' = redelivered + 1
    /\ UNCHANGED <<aside, src, parsed, failures, char_count, aborted,
                   pc, file_hash, trace, acked, merged>>

\* ------------------------------------------------------ specifications

\* Nothing is being applied, the corpus database and the adapter are unused.
NoCall == [op |-> "none"]

AsideIdle ==
    /\ arg = NoCall
    /\ ret = NoCall
    /\ tables = NoCall
    /\ handles = NoCall

\* The state after construction: every file hash of the corpus queued once,
\* the stores empty, every worker about to call worker.get().
InitWorker(corpus, workers) ==
    /\ src = corpus
    /\ parsed = {}
    /\ failures = {}
    /\ char_count = EmptyCounter
    /\ queue = [k \in 1..Len(corpus) |-> k]
    /\ processing = [i \in DOMAIN corpus |-> 0]
    /\ aborted = <<>>
    /\ pc = [w \in workers |-> "get"]
    /\ file_hash = [w \in workers |-> NoItem]
    /\ trace = [w \in workers |-> <<>>]
    /\ redelivered = 0
    /\ acked = [i \in DOMAIN corpus |-> 0]
    /\ merged = [i \in DOMAIN corpus |-> 0]

InitWith(corpus, workers) == InitWorker(corpus, workers) /\ AsideIdle

SourceList == <<"literals", "syntax", "crash", "garbage", "void0", "spaced">>

\* A corpus of n files: n consecutive entries of SourceList, starting after
\* the first r.
Corpus(r, n) ==
    [i \in 1..n |-> SourceList[((i - 1 + r) % Len(SourceList)) + 1]]

\* One worker process, every kind of source.
Init == \E r \in 0..(Len(SourceList) - 1) : InitWith(Corpus(r, NumItems), {1})

Step(w) ==
    \/ Get(w)
    \/ Decode(w)
    \/ Fetch(w)
    \/ Parse(w)
    \/ Persist(w)
    \/ Merge(w)
    \/ Acknowledge(w)
    \/ PublishAborted(w)
    \/ SetFailure(w)

Next ==
    \/ \E w \in Workers : Step(w)
    \/ \E w \in Workers : Interrupt(w)
    \/ \E w \in Workers : Fault(w)
    \/ \E w \in Workers : Start(w)
    \/ \E i \in Items : Replay(i)
    \/ \E i \in Items : Redeliver(i)

Spec == Init /\ [][Next]_vars

\* Several worker processes drain one queue; nothing fails, nobody interrupts
\* and nothing is redelivered.  The files parse or are malformed JavaScript.
InitConcurrent ==
    \E corpus \in [1..(NumWorkers + 1) -> ExpectedSources] :
        InitWith(corpus, 1..NumWorkers)

StepConcurrent(w) ==
    \/ Get(w)
    \/ Decode(w)
    \/ Fetch(w)
    \/ Parse(w)
    \/ Persist(w)
    \/ Merge(w)
    \/ Acknowledge(w)
    \/ SetFailure(w)

NextConcurrent == \E w \in Workers : StepConcurrent(w)

SpecConcurrent == InitConcurrent /\ [][NextConcurrent]_vars

\* ------------------------------------------------------ what is checked

\* The exceptions the bare except clause catches.
CaughtFaults == {"Exception", "ErrorReturnCode", "KeyError", "AssertionError"}

\* The worker's current item went through the bare except clause.
FaultPath(w) == \E k \in 1..Len(trace[w]) : trace[w][k] \in CaughtFaults

\* The worker's current item went through the except ParseError clause.
SyntaxPath(w) == Contains(trace[w], "ParseError")

\* A KeyboardInterrupt arrived while the worker held its current item.
InterruptedInFlight(w) ==
    Contains(trace[w], "KeyboardInterrupt") \/ Contains(trace[w], "UncaughtInterrupt")

Published(w) == Contains(trace[w], "publish")

Acknowledged(w) == Contains(trace[w], "ack")

\* The last n entries of the worker's trace.
Tail2(w) == SubSeq(trace[w], Len(trace[w]) - 1, Len(trace[w]))

\* The codepoint counts of one file: those of its literals when it parses,
\* none otherwise.
ItemCounts(i) ==
    LET result == parse_js(src[i])
    IN  IF result.raised = "none"
        THEN count_codepoints_in_literals(result.tokens)
        ELSE EmptyCounter

\* The sum, for one label, of the counts of the files of a set.
RECURSIVE SumOver(_, _)
SumOver(items, label) ==
    IF items = {} THEN 0
    ELSE LET i == CHOOSE j \in items : TRUE
         IN  CounterGet(ItemCounts(i), label) + SumOver(items \ {i}, label)

AllLabels == UNION {DOMAIN ItemCounts(i) : i \in Items} \cup DOMAIN char_count

\* C1: when a worker has stopped after a KeyboardInterrupt that arrived while
\* it held a dequeued, unacknowledged file hash, that hash was published to
\* the error queue or was acknowledged with its result persisted, exactly
\* one of the two.
C1_NoLossOnInterrupt ==
    \A w \in Workers :
        (pc[w] \in Ended /\ InterruptedInFlight(w)) =>
            LET settled == /\ Acknowledged(w)
                           /\ file_hash[w] \in parsed \cup failures
            IN  Published(w) # settled

\* C2: since its worker.get(), a worker has acknowledged its file hash at
\* most once; on the success path only after add_parsed_source and
\* insert_count returned, on the syntax-error path only after set_failure
\* returned.
C2_AckOnceAfterPersistence ==
    \A w \in Workers :
        /\ Count(trace[w], "ack") <= 1
        /\ (Acknowledged(w) /\ ~FaultPath(w) /\ ~SyntaxPath(w)) =>
                /\ trace[w] = <<"fetch", "parse", "persist", "merge", "ack">>
                /\ file_hash[w] \in parsed
                /\ merged[file_hash[w]] >= 1
        /\ (Acknowledged(w) /\ SyntaxPath(w)) =>
                /\ Before(trace[w], "setfail", "ack")
                /\ file_hash[w] \in failures

C2_Witness ==
    \E w \in Workers :
        /\ pc[w] = "get"
        /\ trace[w] = <<"fetch", "parse", "persist", "merge", "ack">>

\* C3: no exception other than KeyboardInterrupt, raised while a worker
\* handles a file hash, ends the worker's loop.
C3_NoFaultEndsLoop ==
    \A w \in Workers : ~(pc[w] = "crashed" /\ Contains(trace[w], "Uncaught"))

\* C4: when a statement of the try body raises an exception other than
\* ParseError and KeyboardInterrupt, the bare except clause runs: the worker
\* publishes the file hash to the error queue, then acknowledges it, then
\* is back at worker.get() (where an interrupt of the idle pop may stop it).  (A fault or an interrupt inside the clause
\* itself is the matter of C1 and C3.)
C4_FaultPublishesThenAcks ==
    \A w \in Workers :
        FaultPath(w) =>
            /\ pc[w] \in {"ex_publish", "ex_ack", "get", "stopped", "killed", "crashed"}
            /\ ~SyntaxPath(w)
            /\ Count(trace[w], "publish") <= 1
            /\ pc[w] = "ex_publish" => Last(trace[w]) \in CaughtFaults
            /\ pc[w] = "ex_ack" =>
                    /\ Last(trace[w]) = "publish"
                    /\ file_hash[w] \in Range(aborted)
            /\ Acknowledged(w) => Before(trace[w], "publish", "ack")
            /\ pc[w] \in {"get", "stopped"} =>
                    /\ Tail2(w) = <<"publish", "ack">>
                    /\ acked[file_hash[w]] >= 1

C4_Witness ==
    \E w \in Workers :
        /\ pc[w] = "get"
        /\ trace[w] = <<"fetch", "exit", "KeyError", "publish", "ack">>

\* C5: when parse_js raises ParseError, the worker records the failure
\* marker, then acknowledges the file hash, and never publishes it to the
\* error queue.
C5_SyntaxErrorRecordedNotPublished ==
    \A w \in Workers :
        SyntaxPath(w) =>
            /\ pc[w] \in {"pe_setfail", "pe_ack", "get", "stopped", "killed", "crashed"}
            /\ ~Published(w)
            /\ ~FaultPath(w)
            /\ pc[w] = "pe_setfail" => Last(trace[w]) = "ParseError"
            /\ pc[w] = "pe_ack" =>
                    /\ Last(trace[w]) = "setfail"
                    /\ file_hash[w] \in failures
            /\ Acknowledged(w) =>
                    /\ Before(trace[w], "setfail", "ack")
                    /\ file_hash[w] \in failures
            /\ pc[w] \in {"get", "stopped"} =>
                    trace[w] = <<"fetch", "exit", "ParseError", "setfail", "ack">>

C5_Witness ==
    \E w \in Workers :
        /\ pc[w] = "get"
        /\ trace[w] = <<"fetch", "exit", "ParseError", "setfail", "ack">>
        /\ file_hash[w] \in failures
        /\ file_hash[w] \notin Range(aborted)

\* The exit status of the parser process for the worker's current file.
ExitStatus(w) == node(src[file_hash[w]]).rc

\* The parser process of the worker's current file exited and parse_js raised.
ParserFailed(w) == Contains(trace[w], "exit")

\* C6, as claimed: every non-zero exit status of the parser process takes
\* the worker down the syntax-error path.
C6_NonZeroExitIsSyntaxError ==
    \A w \in Workers :
        (ParserFailed(w) /\ ExitStatus(w) # 0) => SyntaxPath(w)

\* C6, amended: exit status 1 takes the worker down the syntax-error path
\* (failure recorded, never published); every other non-zero exit status is
\* an unexpected fault (published to the error queue, no failure recorded
\* for it).
C6_OnlyExitOneIsSyntaxError ==
    \A w \in Workers :
        ParserFailed(w) =>
            /\ ExitStatus(w) = 1 => (SyntaxPath(w) /\ ~Published(w))
            /\ ExitStatus(w) \notin {0, 1} =>
                    /\ Contains(trace[w], "ErrorReturnCode")
                    /\ ~SyntaxPath(w)
                    /\ ~Contains(trace[w], "setfail")
                    /\ Acknowledged(w) => Published(w)

C6_Witness ==
    \E w \in Workers :
        /\ trace[w] = <<"fetch", "exit", "ErrorReturnCode", "publish", "ack">>
        /\ ExitStatus(w) = 2
        /\ file_hash[w] \notin failures

\* C7: however often a file hash was handled, every label of the aggregate
\* holds the counts of each merged file once.
C7_IdempotentUnderRedelivery ==
    \A label \in AllLabels :
        CounterGet(char_count, label) =
            SumOver({i \in Items : merged[i] >= 1}, label)

\* Nothing is queued and every worker is waiting in worker.get().
Drained == queue = <<>> /\ \A w \in Workers : pc[w] = "get"

\* C8: with no faults and no interrupts, no file hash is acknowledged twice,
\* and once the queue is drained every file hash was acknowledged exactly
\* once and every label of the aggregate holds the sum of the files' counts.
C8_ConcurrentDrain ==
    /\ \A i \in Items : acked[i] <= 1
    /\ Drained =>
        /\ \A i \in Items : acked[i] = 1
        /\ \A label \in AllLabels :
                CounterGet(char_count, label) = SumOver(Items, label)

C8_Witness ==
    /\ Drained
    /\ Cardinality(Items) > Cardinality(Workers)
    /\ \A w \in Workers : Contains(trace[w], "merge")
    /\ CounterGet(char_count, in_uplus_notation(SPACE)) >= 2

\* The step is a KeyboardInterrupt that reaches worker w in worker.get().
IdleInterrupt(w) == pc[w] = "get" /\ pc'[w] \notin {"get", "decode", "crashed"}

\* C9: a KeyboardInterrupt in the idle worker.get() ends the loop and
\* changes nothing else: no store, no queue, no acknowledgment.
C9_IdleInterruptChangesNothing ==
    [][\A w \in Workers :
          IdleInterrupt(w) =>
              /\ pc'[w] = "stopped"
              /\ UNCHANGED <<aside, stores, file_hash, trace, history>>]_vars

C9_Witness ==
    \E w \in Workers :
        /\ pc[w] = "stopped"
        /\ ~InterruptedInFlight(w)
        /\ queue # <<>>

\* C10, as claimed: every acknowledged file hash has a success row or a
\* failure marker, and not both.
C10_AckedHasExactlyOneRecord ==
    \A i \in Items :
        acked[i] > 0 => ((i \in parsed) # (i \in failures))

\* C10, amended: no file hash has both a success row and a failure marker,
\* and a file hash acknowledged on the success path or on the syntax-error
\* path has exactly one of them (the success row on the former, the failure
\* marker on the latter).
C10_AckedOutcomeRecorded ==
    /\ \A i \in Items : ~(i \in parsed /\ i \in failures)
    /\ \A w \in Workers :
        (Acknowledged(w) /\ ~FaultPath(w)) =>
            /\ (file_hash[w] \in parsed) # (file_hash[w] \in failures)
            /\ SyntaxPath(w) <=> file_hash[w] \in failures

C10_Witness ==
    \E w \in Workers :
        /\ Acknowledged(w)
        /\ SyntaxPath(w)
        /\ file_hash[w] \in failures
        /\ file_hash[w] \notin parsed
        /\ \E i \in Items : acked[i] > 0 /\ i \in parsed

-----------------------------------------------------------------------------
\* StringifyLexeme (sensibility/language/javascript): the canonicalizer that
\* turns one token into the symbol of the language model's vocabulary.

\* Longest token text the canonicalizer is applied to.
MaxText == 3

\* Every sequence over S of length at most n.
SeqsUpTo(S, n) == UNION {[1..k -> S] : k \in 0..n}

\* The outcome of a call: a returned value or a raised exception.  A returned
\* value is a fixed symbol (what), the token's own text (what = "verbatim")
\* or another object (what = "NotImplemented").
Result(kind, what, msg, text) ==
    [kind |-> kind, what |-> what, msg |-> msg, text |-> text]

Returns(symbol) == Result("return", symbol, "", <<>>)

Verbatim(text) == Result("return", "verbatim", "", text)

Raises(exc, msg) == Result("raise", exc, msg, <<>>)

Pending == Result("pending", "", "", <<>>)

\* str.startswith(c) and str.endswith(c) for a one-character c.
StartsWith(text, c) == Len(text) >= 1 /\ text[1] = c

EndsWith(text, c) == Len(text) >= 1 /\ text[Len(text)] = c

\* Template with the two inner branches of the '}' case exchanged.
TemplateTailMiddleSwapped(text) ==
    IF Len(text) < 2 THEN Raises("AssertionError", "")
    ELSE IF StartsWith(text, BACKQUOTE) /\ EndsWith(text, BACKQUOTE)
        THEN Returns("<STANDALONE-TEMPLATE>")
    ELSE IF StartsWith(text, BACKQUOTE) /\ EndsWithInterpolation(text)
        THEN Returns("<TEMPLATE-HEAD>")
    ELSE IF StartsWith(text, RBRACE) /\ EndsWith(text, BACKQUOTE)
        THEN Returns("<TEMPLATE-MIDDLE>")
    ELSE IF StartsWith(text, RBRACE) /\ EndsWithInterpolation(text)
        THEN Returns("<TEMPLATE-TAIL>")
    ELSE Raises("TypeError", "Unhandled template literal")

\* StringifyLexeme.Template: assert len(text) >= 2, then the two outer
\* branches on the first character, each with two inner branches on the end;
\* whatever matches no inner branch falls through to the raise.
Template(text) ==
    IF Len(text) < 2 THEN Raises("AssertionError", "")
    ELSE IF StartsWith(text, BACKQUOTE) /\ EndsWith(text, BACKQUOTE)
        THEN Returns("<STANDALONE-TEMPLATE>")
    ELSE IF StartsWith(text, BACKQUOTE) /\ EndsWithInterpolation(text)
        THEN Returns("<TEMPLATE-HEAD>")
    ELSE IF StartsWith(text, RBRACE) /\ EndsWith(text, BACKQUOTE)
        THEN Returns("<TEMPLATE-TAIL>")
    ELSE IF StartsWith(text, RBRACE) /\ EndsWithInterpolation(text)
        THEN Returns("<TEMPLATE-MIDDLE>")
    ELSE Raises("TypeError", "Unhandled template literal")

\* The methods StringifyLexeme defines for token kinds.
KindMethods ==
    {"Boolean", "Identifier", "Keyword", "Null", "Numeric", "Punctuator",
     "String", "RegularExpression", "Template"}

\* Names getattr(self, name) also finds on a StringifyLexeme instance: what
\* the class defines besides the kinds and what it inherits from object.
OtherAttributes == {"__call__", "__eq__", "__class__", "__doc__"}

\* Kind names getattr does not find.
UnknownKinds == {"Comment", "JSXText"}

\* fn(token.value) for each attribute getattr(self, token.name) finds.
Dispatch(name, text) ==
    CASE name \in {"Boolean", "Keyword", "Punctuator"} -> Verbatim(text)
      [] name = "Null" -> Returns("null")
      [] name = "Identifier" -> Returns("<IDENTIFIER>")
      [] name = "Numeric" -> Returns("<NUMBER>")
      [] name = "String" -> Returns("<STRING>")
      [] name = "RegularExpression" -> Returns("<REGEXP>")
      [] name = "Template" -> Template(text)
         \* self.__call__(text): text.name, a str has no attribute name
      [] name = "__call__" -> Raises("AttributeError", "no attribute 'name'")
         \* self.__eq__(text): object.__eq__ of two different objects
      [] name = "__eq__" -> Result("return", "NotImplemented", "", <<>>)
         \* StringifyLexeme(text): object() takes no arguments
      [] name = "__class__" -> Raises("TypeError", "takes no arguments")
         \* self.__doc__(text): the docstring is not callable
      [] name = "__doc__" -> Raises("TypeError", "object is not callable")

\* StringifyLexeme.__call__: look the kind up as an attribute; only a failed
\* lookup raises 'Unhandled type'.
StringifyLexeme(token) ==
    IF token.name \in KindMethods \cup OtherAttributes
    THEN Dispatch(token.name, token.value)
    ELSE Raises("TypeError", "Unhandled type")

\* The code points token texts are drawn from.
LexemeAlphabet == {BACKQUOTE, DOLLAR, LBRACE, RBRACE, LETTER_A}

Lexemes ==
    [op : {"stringify"},
     name : KindMethods \cup OtherAttributes \cup UnknownKinds,
     value : SeqsUpTo(LexemeAlphabet, MaxText)]

\* No worker, empty stores: the worker loop is not part of this run.
WorkerAbsent == InitWorker(<<>>, {})

InitLexeme ==
    /\ WorkerAbsent
    /\ arg \in Lexemes
    /\ ret = Pending
    /\ tables = NoCall
    /\ handles = NoCall

\* stringify_token(token)
Stringify ==
    /\ arg.op = "stringify"
    /\ ret = Pending
    /\ ret' = StringifyLexeme(arg)
    /\ UNCHANGED <<worker_vars, arg, tables, handles>>

NextLexeme == Stringify

SpecLexeme == InitLexeme /\ [][NextLexeme]_vars

\* A symbol string was returned.
ReturnedSymbol(r) == r.kind = "return" /\ r.what # "NotImplemented"

\* The canonicalizer has been applied to the token in arg.
Stringified == arg.op = "stringify" /\ ret # Pending

\* C11: for a token of one of the nine kinds (a Template being well-shaped)
\* the canonicalizer returns a symbol string, and for every other kind name,
\* names of attributes every Python object has included, it raises
\* TypeError 'Unhandled type' and returns nothing.
C11_TotalWithTypedFailure ==
    Stringified =>
        IF arg.name \in KindMethods
        THEN (arg.name = "Template" /\ Template(arg.value).kind = "raise")
                \/ ReturnedSymbol(ret)
        ELSE ret = Raises("TypeError", "Unhandled type")

\* C12, as claimed: the four delimiter shapes give the four template symbols
\* and every other text, texts shorter than two characters included, raises
\* the malformed-template error.
C12_TemplateShapes ==
    (Stringified /\ arg.name = "Template") =>
        LET text == arg.value
            head == StartsWith(text, BACKQUOTE)
            cont == StartsWith(text, RBRACE)
            closes == EndsWith(text, BACKQUOTE)
            opens == EndsWithInterpolation(text)
        IN  CASE Len(text) >= 2 /\ head /\ closes ->
                    ret = Returns("<STANDALONE-TEMPLATE>")
              [] Len(text) >= 2 /\ head /\ opens ->
                    ret = Returns("<TEMPLATE-HEAD>")
              [] Len(text) >= 2 /\ cont /\ closes ->
                    ret = Returns("<TEMPLATE-TAIL>")
              [] Len(text) >= 2 /\ cont /\ opens ->
                    ret = Returns("<TEMPLATE-MIDDLE>")
              [] OTHER ->
                    ret = Raises("TypeError", "Unhandled template literal")

\* C12, amended: texts of two or more characters are classified by their
\* delimiter shape and any other shape raises the malformed-template error;
\* a text shorter than two characters fails the assertion instead.
C12_TemplateShapesOrAssertion ==
    (Stringified /\ arg.name = "Template") =>
        LET text == arg.value
            head == StartsWith(text, BACKQUOTE)
            cont == StartsWith(text, RBRACE)
            closes == EndsWith(text, BACKQUOTE)
            opens == EndsWithInterpolation(text)
        IN  CASE Len(text) < 2 ->
                    ret = Raises("AssertionError", "")
              [] Len(text) >= 2 /\ head /\ closes ->
                    ret = Returns("<STANDALONE-TEMPLATE>")
              [] Len(text) >= 2 /\ head /\ opens ->
                    ret = Returns("<TEMPLATE-HEAD>")
              [] Len(text) >= 2 /\ cont /\ closes ->
                    ret = Returns("<TEMPLATE-TAIL>")
              [] Len(text) >= 2 /\ cont /\ opens ->
                    ret = Returns("<TEMPLATE-MIDDLE>")
              [] OTHER ->
                    ret = Raises("TypeError", "Unhandled template literal")

C12_Witness ==
    /\ Stringified
    /\ arg.name = "Template"
    /\ arg.value = <<RBRACE, LETTER_A, BACKQUOTE>>
    /\ ret = Returns("<TEMPLATE-TAIL>")

-----------------------------------------------------------------------------
\* in_uplus_notation applied to pairs of Unicode scalar values.

\* Every scalar value up to MaxLow is labelled, besides the samples.
MaxLow == 17

\* 'A', the last three- and first four-digit values, the ends of the
\* surrogate gap, the last four- and first five-digit values, the kissing
\* face, the last five- and first six-digit values, the last scalar value.
ScalarSamples ==
    {LETTER_A, 255, 256, 4095, 4096, 55295, 57344, 65535, 65536, KISS,
     1048575, 1048576, 1114111}

Scalars == (0..MaxLow) \cup ScalarSamples

InitLabel ==
    /\ WorkerAbsent
    /\ arg \in [op : {"label"}, a : Scalars, b : Scalars]
    /\ ret = Pending
    /\ tables = NoCall
    /\ handles = NoCall

\* in_uplus_notation(a), in_uplus_notation(b)
Label ==
    /\ arg.op = "label"
    /\ ret.kind = "pending"
    /\ ret' = [kind |-> "labels",
               la |-> in_uplus_notation(arg.a),
               lb |-> in_uplus_notation(arg.b)]
    /\ UNCHANGED <<worker_vars, arg, tables, handles>>

NextLabel == Label

SpecLabel == InitLabel /\ [][NextLabel]_vars

\* The number a sequence of upper-case hexadecimal digits denotes.
RECURSIVE HexValue(_)
HexValue(digits) ==
    IF digits = <<>> THEN 0
    ELSE 16 * HexValue(SubSeq(digits, 1, Len(digits) - 1))
            + (CHOOSE k \in 0..15 : HexDigits[k + 1] = Last(digits))

\* The number of hexadecimal digits of n written without padding.
RECURSIVE HexLen(_)
HexLen(n) == IF n < 16 THEN 1 ELSE 1 + HexLen(n \div 16)

\* label is 'U+' and the upper-case hexadecimal value of c, zero-padded to
\* four digits below 0x10000 and to five digits from 0x10000 on.
IsLabelOf(label, c) ==
    LET digits == SubSeq(label, 3, Len(label))
        width == IF c < 65536 THEN 4 ELSE 5
    IN  /\ Len(label) >= 3
        /\ label[1] = "U"
        /\ label[2] = "+"
        /\ \A k \in 1..Len(digits) : digits[k] \in Range(HexDigits)
        /\ HexValue(digits) = c
        /\ Len(digits) = IF HexLen(c) > width THEN HexLen(c) ELSE width

Labelled == arg.op = "label" /\ ret.kind = "labels"

\* C13: the label of a scalar value c is 'U+' and the upper-case hexadecimal
\* value of c, zero-padded to 4 digits below 0x10000 and to 5 digits from
\* 0x10000 on; it contains no space, and different scalar values get
\* different labels.
C13_LabelFormat ==
    Labelled =>
        /\ IsLabelOf(ret.la, arg.a)
        /\ IsLabelOf(ret.lb, arg.b)
        /\ " " \notin Range(ret.la)
        /\ " " \notin Range(ret.lb)
        /\ arg.a # arg.b => ret.la # ret.lb
        /\ arg.a = LETTER_A => ret.la = <<"U", "+", "0", "0", "4", "1">>
        /\ arg.a = KISS => ret.la = <<"U", "+", "1", "F", "6", "1", "8">>

C13_Witness ==
    /\ Labelled
    /\ arg.a = LETTER_A
    /\ arg.b = KISS
    /\ ret.la = <<"U", "+", "0", "0", "4", "1">>
    /\ ret.lb = <<"U", "+", "1", "F", "6", "1", "8">>

-----------------------------------------------------------------------------
\* count_codepoints_in_literals applied to token sequences.

\* Longest token text built from the alphabet below.
MaxLiteral == 3

\* Token texts: every text over '$', '{' and 'A' up to MaxLiteral, and the
\* literals '', 'A', `A`, }`, `${, `A${ and }A${ as the lexer writes them.
LiteralTexts ==
    SeqsUpTo({DOLLAR, LBRACE, LETTER_A}, MaxLiteral) \cup
    {<<QUOTE, QUOTE>>, <<QUOTE, LETTER_A, QUOTE>>,
     <<BACKQUOTE, LETTER_A, BACKQUOTE>>, <<RBRACE, BACKQUOTE>>,
     <<BACKQUOTE, DOLLAR, LBRACE>>, <<BACKQUOTE, LETTER_A, DOLLAR, LBRACE>>,
     <<RBRACE, LETTER_A, DOLLAR, LBRACE>>}

ProfiledTokens ==
    [type : {"String", "Template", "Identifier"}, value : LiteralTexts]

\* Lengths of the token sequences profiled.
TokenCounts == {0, 1, 2}

\* What a call of count_codepoints_in_literals produces: the counter, or the
\* AssertionError of clean_literal leaving the generator.
CountCodepointsCall(tokens) ==
    IF find_literals_raises(tokens)
    THEN [kind |-> "raise", what |-> "AssertionError"]
    ELSE [kind |-> "counter",
          counter |-> count_codepoints_in_literals(tokens)]

InitProfile ==
    /\ WorkerAbsent
    /\ arg \in [op : {"profile"},
                tokens : UNION {[1..n -> ProfiledTokens] : n \in TokenCounts}]
    /\ ret = Pending
    /\ tables = NoCall
    /\ handles = NoCall

\* count_codepoints_in_literals(tokens)
Profile ==
    /\ arg.op = "profile"
    /\ ret.kind = "pending"
    /\ ret' = CountCodepointsCall(arg.tokens)
    /\ UNCHANGED <<worker_vars, arg, tables, handles>>

NextProfile == Profile

SpecProfile == InitProfile /\ [][NextProfile]_vars

\* The positions of a token's text that are left after stripping: all but
\* the first and the last for a String; all but the first and the last, or
\* the last two after a closing '${', for a Template; none for other kinds.
KeptPositions(token) ==
    LET n == Len(token.value)
    IN  CASE token.type = "String" -> 2..(n - 1)
          [] token.type = "Template" ->
                IF n >= 2 /\ token.value[n - 1] = DOLLAR /\ token.value[n] = LBRACE
                THEN 2..(n - 2)
                ELSE 2..(n - 1)
          [] OTHER -> {}

\* Occurrences of the scalar value c in the stripped literals of tokens.
Occurrences(tokens, c) ==
    Cardinality({pos \in UNION {{<<k, p>> : p \in KeptPositions(tokens[k])} :
                                k \in 1..Len(tokens)} :
                    tokens[pos[1]].value[pos[2]] = c})

\* The scalar values that occur anywhere in the token texts.
ScalarsOf(tokens) == UNION {Range(tokens[k].value) : k \in 1..Len(tokens)}

Profiled == arg.op = "profile" /\ ret.kind # "pending"

\* C14: the profiler's result maps each label to the number of occurrences
\* of its scalar value in the stripped contents of the String and Template
\* tokens: a String without its first and last character, a Template
\* without its first character and its last one, or its last two after a
\* closing '${'; other kinds count nothing.  The profiler has no result
\* exactly when a String token is shorter than two characters.
C14_ProfilerCounts ==
    Profiled =>
        LET tokens == arg.tokens
        IN  IF \E k \in 1..Len(tokens) :
                    tokens[k].type = "String" /\ Len(tokens[k].value) < 2
            THEN ret.kind = "raise"
            ELSE /\ ret.kind = "counter"
                 /\ \A l \in DOMAIN ret.counter :
                        /\ ret.counter[l] > 0
                        /\ \E c \in ScalarsOf(tokens) : l = in_uplus_notation(c)
                 /\ \A c \in ScalarsOf(tokens) :
                        CounterGet(ret.counter, in_uplus_notation(c))
                            = Occurrences(tokens, c)

\* A head '`A${' followed by a tail '}`': one 'A', and nothing from the tail.
C14_Witness ==
    /\ Profiled
    /\ arg.tokens = <<Tok("Template", <<BACKQUOTE, LETTER_A, DOLLAR, LBRACE>>),
                      Tok("Template", <<RBRACE, BACKQUOTE>>)>>
    /\ ret.kind = "counter"
    /\ DOMAIN ret.counter = {in_uplus_notation(LETTER_A)}
    /\ ret.counter[in_uplus_notation(LETTER_A)] = 1

-----------------------------------------------------------------------------
\* The codepoint frequency aggregate over the run of the worker.

\* The file has parsed and has no String and no Template token.
NoLiterals(i) ==
    LET result == parse_js(src[i])
    IN  /\ result.raised = "none"
        /\ \A k \in 1..Len(result.tokens) :
                result.tokens[k].type \notin {"String", "Template"}

\* C15: no step of the worker removes a label from the codepoint frequency
\* aggregate or lowers its count, and no step taken while the worker handles
\* a parsed file without String and Template tokens changes the aggregate.
C15_AggregateMonotone ==
    [][/\ \A l \in DOMAIN char_count :
            l \in DOMAIN char_count' /\ char_count'[l] >= char_count[l]
       /\ \A w \in Workers :
            (pc[w] \in InFlight /\ NoLiterals(file_hash[w])) =>
                char_count' = char_count]_vars

\* A file without literals has just been merged into a non-empty aggregate.
C15_Witness ==
    \E w \in Workers :
        /\ trace[w] # <<>>
        /\ Last(trace[w]) = "merge"
        /\ NoLiterals(file_hash[w])
        /\ merged[file_hash[w]] >= 1
        /\ char_count # EmptyCounter

-----------------------------------------------------------------------------
\* The corpus store (sensibility.miner.corpus, sensibility.miner.models) as
\* the tests of test_corpus.py use it.

\* Most rows the repository_source table holds.
MaxRows == 3

\* Source files, as bytes: 'A', 'A ' and ' A'.
SourceBytes == {<<LETTER_A>>, <<LETTER_A, SPACE>>, <<SPACE, LETTER_A>>}

Repositories == {"owner/name", "owner/other"}

Paths == {"hello.py", "world.py"}

\* SourceFile.filehash: a digest of the bytes, here their value as a number
\* in base 257 with digits 1..256, which no two byte strings share.
RECURSIVE filehash(_)
filehash(source) ==
    IF source = <<>> THEN 0
    ELSE 257 * filehash(SubSeq(source, 1, Len(source) - 1)) + Last(source) + 1

\* SourceFileInRepository(repository, source_file, path) as a table row.
RepoFile(repository, source, path) ==
    [repository |-> repository, hash |-> filehash(source), path |-> path]

\* A uniqueness constraint on the repository and the hash alone.
KeyWithoutPath(rows, row) ==
    \E k \in 1..Len(rows) :
        rows[k].repository = row.repository /\ rows[k].hash = row.hash

\* The uniqueness constraint of repository_source: repository, hash and path.
IntegrityError(rows, row) == Contains(rows, row)

\* The hashes stored in the source_file table.
StoredHashes == {tables.source_file[k].hash : k \in 1..Len(tables.source_file)}

\* corpus.get_source(filehash) / corpus[filehash]
get_source(hash) ==
    LET k == CHOOSE j \in 1..Len(tables.source_file) :
                    tables.source_file[j].hash = hash
    IN  tables.source_file[k].source

\* Corpus(engine=create_engine('sqlite://')): an empty schema.
InitCorpus ==
    /\ WorkerAbsent
    /\ arg = NoCall
    /\ ret = Pending
    /\ tables = [op |-> "corpus", source_file |-> <<>>, repository_source |-> <<>>]
    /\ handles = NoCall

\* corpus.insert_source_file_from_repo(entry): the source file row is added
\* unless its hash is stored already, then the repository_source row; a
\* violated constraint raises and leaves both tables as they were.
InsertSourceFileFromRepo(repository, source, path) ==
    LET row == RepoFile(repository, source, path)
    IN  /\ tables.op = "corpus"
        /\ Len(tables.repository_source) < MaxRows
        /\ arg' = [op |-> "insert", repository |-> repository,
                   source |-> source, path |-> path]
        /\ IF IntegrityError(tables.repository_source, row)
           THEN /\ ret' = [kind |-> "raise", what |-> "IntegrityError"]
                /\ UNCHANGED tables
           ELSE /\ ret' = [kind |-> "return", what |-> "None"]
                /\ tables' =
                    [tables EXCEPT
                        !.source_file =
                            IF row.hash \in StoredHashes THEN @
                            ELSE Append(@, [hash |-> row.hash, source |-> source]),
                        !.repository_source = Append(@, row)]
        /\ UNCHANGED <<worker_vars, handles>>

\* source_code = corpus.get_source(filehash)
GetSource(hash) ==
    /\ tables.op = "corpus"
    /\ hash \in StoredHashes
    /\ arg' = [op |-> "get_source", hash |-> hash]
    /\ ret' = [kind |-> "return", what |-> "bytes", source |-> get_source(hash)]
    /\ UNCHANGED <<worker_vars, tables, handles>>

NextCorpus ==
    \/ \E repository \in Repositories, source \in SourceBytes, path \in Paths :
            InsertSourceFileFromRepo(repository, source, path)
    \/ \E hash \in StoredHashes : GetSource(hash)

SpecCorpus == InitCorpus /\ [][NextCorpus]_vars

\* The row the last insert_source_file_from_repo was called with.
InsertedRow == RepoFile(arg.repository, arg.source, arg.path)

\* C16: identifiers are content-addressed and repository_source rows are
\* unique: inserting a file for a repository under a path it is stored under
\* raises, inserting the same bytes under another path succeeds, and the
\* source get_source returns for an identifier hashes to that identifier.
C16_ContentAddressedUniquePaths ==
    tables.op = "corpus" =>
        LET files == tables.source_file
            rows == tables.repository_source
        IN  /\ \A j, k \in 1..Len(rows) : rows[j] = rows[k] => j = k
            /\ \A j, k \in 1..Len(files) :
                    (files[j].source = files[k].source) <=> (j = k)
            /\ \A k \in 1..Len(files) : filehash(files[k].source) = files[k].hash
            /\ \A k \in 1..Len(rows) : rows[k].hash \in StoredHashes
            /\ arg.op = "insert" =>
                    /\ ret.kind = "raise" =>
                            \E k \in 1..Len(rows) : rows[k] = InsertedRow
                    /\ ret.kind = "return" => Last(rows) = InsertedRow
            /\ arg.op = "get_source" =>
                    /\ ret.kind = "return"
                    /\ filehash(ret.source) = arg.hash

\* test_insert_duplicate: hello.py is stored, world.py with the same bytes
\* has been inserted, and hello.py inserted once more has raised.
C16_Witness ==
    /\ tables.op = "corpus"
    /\ arg.op = "insert"
    /\ arg.path = "hello.py"
    /\ ret.kind = "raise"
    /\ tables.repository_source =
            <<RepoFile(arg.repository, arg.source, "hello.py"),
              RepoFile(arg.repository, arg.source, "world.py")>>
    /\ Len(tables.source_file) = 1

-----------------------------------------------------------------------------
\* The worker loop: interrupts inside the try block, acknowledgments, and
\* the order of the success record and the aggregate.

\* C17: after a KeyboardInterrupt inside the try block (fetch, parse,
\* persist or merge) the worker is in the except KeyboardInterrupt clause or
\* has left the loop: it publishes the file hash to the error queue once,
\* never acknowledges it, and dequeues nothing more.
C17_InterruptPublishesOnceAndStops ==
    \A w \in Workers :
        Contains(trace[w], "KeyboardInterrupt") =>
            /\ pc[w] \in {"kbd_publish"} \cup Ended
            /\ Count(trace[w], "KeyboardInterrupt") = 1
            /\ ~Acknowledged(w)
            /\ Count(trace[w], "publish") <= 1
            /\ pc[w] = "kbd_publish" =>
                    /\ Last(trace[w]) = "KeyboardInterrupt"
                    /\ ~Published(w)
            /\ pc[w] = "stopped" =>
                    /\ Tail2(w) = <<"KeyboardInterrupt", "publish">>
                    /\ Count(trace[w], "publish") = 1

\* Interrupted during insert_count: published, not acknowledged, stopped.
C17_Witness ==
    \E w \in Workers :
        /\ pc[w] = "stopped"
        /\ Contains(trace[w], "persist")
        /\ Tail2(w) = <<"KeyboardInterrupt", "publish">>
        /\ file_hash[w] \in Range(aborted)
        /\ file_hash[w] \in parsed
        /\ acked[file_hash[w]] = 0

\* C19: whenever the worker has acknowledged its item, the item was accounted
\* for before the acknowledgment: its success record was persisted and its
\* counts merged, or its failure marker was set, or its hash was published
\* to the error queue.
C19_AckedIsAccountedFor ==
    \A w \in Workers :
        Acknowledged(w) =>
            \/ /\ Before(trace[w], "persist", "merge")
               /\ Before(trace[w], "merge", "ack")
               /\ file_hash[w] \in parsed
               /\ merged[file_hash[w]] >= 1
            \/ /\ Before(trace[w], "setfail", "ack")
               /\ file_hash[w] \in failures
            \/ Before(trace[w], "publish", "ack")

\* Acknowledged with neither record: only the publication accounts for it.
C19_Witness ==
    \E w \in Workers :
        /\ Acknowledged(w)
        /\ Before(trace[w], "publish", "ack")
        /\ file_hash[w] \notin parsed
        /\ file_hash[w] \notin failures
        /\ merged[file_hash[w]] = 0

\* The worker's current item raised inside insert_count, after its success
\* record was persisted.
MergeFailed(w) ==
    \E j, k \in 1..Len(trace[w]) :
        j < k /\ trace[w][j] = "persist" /\ trace[w][k] \in CaughtFaults

\* What a merge of each source adds to the aggregate: the counter of its
\* tokens, and nothing when it does not parse.
CountsOfSource ==
    [source \in Sources |->
        LET result == parse_js(source)
        IN  IF result.raised = "none"
            THEN count_codepoints_in_literals(result.tokens)
            ELSE EmptyCounter]

\* The sum, for one label, of the counts of the files of a set, each taken
\* as many times as the file was merged.
RECURSIVE MergedSum(_, _)
MergedSum(items, label) ==
    IF items = {} THEN 0
    ELSE LET i == CHOOSE j \in items : TRUE
         IN  merged[i] * CounterGet(CountsOfSource[src[i]], label)
                + MergedSum(items \ {i}, label)

\* C20: the aggregate holds exactly the counts of the merges that happened,
\* and a merge happens only for an item whose success record is persisted:
\* an item with a syntax error, or that raised or was interrupted before
\* add_parsed_source returned, has merged nothing; an item whose merge raised
\* keeps its success record and goes to the error queue.
C20_MergeOnlyAfterPersist ==
    /\ \A l \in DOMAIN char_count \cup
                UNION {DOMAIN CountsOfSource[src[i]] : i \in Items} :
            CounterGet(char_count, l) = MergedSum(Items, l)
    /\ \A i \in Items : merged[i] >= 1 => i \in parsed
    /\ \A w \in Workers :
        /\ Contains(trace[w], "merge") =>
                /\ Before(trace[w], "persist", "merge")
                /\ file_hash[w] \in parsed
        /\ ~Contains(trace[w], "persist") => ~Contains(trace[w], "merge")
        /\ SyntaxPath(w) =>
                ~Contains(trace[w], "persist") /\ ~Contains(trace[w], "merge")
        /\ MergeFailed(w) =>
                /\ ~Contains(trace[w], "merge")
                /\ file_hash[w] \in parsed
                /\ pc[w] = "ex_publish" \/ Published(w) \/ pc[w] \in {"killed", "crashed"}

\* A merge that raised: the success record is there, the hash is published,
\* and the aggregate has none of the file's counts.
C20_Witness ==
    \E w \in Workers :
        /\ MergeFailed(w)
        /\ Published(w)
        /\ file_hash[w] \in parsed
        /\ file_hash[w] \in Range(aborted)
        /\ merged[file_hash[w]] = 0
        /\ CountsOfSource[src[file_hash[w]]] # EmptyCounter
        /\ \A l \in DOMAIN CountsOfSource[src[file_hash[w]]] :
                l \notin DOMAIN char_count

-----------------------------------------------------------------------------
\* The tokenizer adapter and its transient file: parse_js of the worker, and
\* tokenize and check_syntax of the language module with SafeSourceFile.

Adapters == {"parse_js", "tokenize", "check_syntax"}

\* The source is a str, bytes, or a byte stream the caller has opened.
SourceForms == {"str", "bytes", "stream"}

\* Exit statuses of the external parser process.
ExitStatuses == {0, 1, 2}

\* One call: the adapter, the form of its source, whether a str source can
\* be encoded as UTF-8 (it cannot with a lone surrogate), whether the
\* transient file can be written and flushed, and the exit status of the
\* parser.
AdapterCalls ==
    [op : Adapters, form : SourceForms, encodable : BOOLEAN,
     writable : BOOLEAN, status : ExitStatuses]

\* The file objects of a call: where the adapter is, the transient file it
\* created and the stream of the caller, each "none", "open" or "closed"; a
\* transient file nothing refers to any more is "finalized" once the
\* garbage collector has closed it.
Handles(at, transient, caller) ==
    [op |-> "adapter", at |-> at, transient |-> transient, caller |-> caller]

InitAdapter ==
    /\ WorkerAbsent
    /\ arg \in AdapterCalls
    /\ ret = Pending
    /\ tables = NoCall
    /\ handles = Handles("enter", "none",
                         IF arg.form = "stream" THEN "open" ELSE "none")

\* The call ends: control is back in the caller.
Leave(result, transient) ==
    /\ ret' = result
    /\ handles' = Handles(result.kind, transient, handles.caller)

At(p, transient) == handles' = Handles(p, transient, handles.caller) /\ UNCHANGED ret

\* parse_js up to the with statement: source.encode('utf-8') and
\* tempfile.NamedTemporaryFile().  SafeSourceFile.__enter__: the caller's
\* stream is passed on as it is; for str and bytes synthetic_file starts
\* with tempfile.TemporaryFile(mode='w+b').
Enter ==
    /\ handles.op = "adapter"
    /\ handles.at = "enter"
    /\ IF arg.op = "parse_js"
       THEN IF arg.form = "str" /\ ~arg.encodable
            THEN Leave(Raises("UnicodeEncodeError", ""), "none")
            ELSE At("write", "open")
       ELSE IF arg.form = "stream"
            THEN At("run", "none")
            ELSE At("write", "open")
    /\ UNCHANGED <<worker_vars, arg, tables>>

\* source_file.write(source); source_file.flush() inside the with statement
\* of parse_js: an exception leaves through the with statement.
\* synthetic_file: file_obj.write(source.encode('UTF-8')), flush, seek; an
\* exception leaves synthetic_file and __enter__ with file_obj still open
\* and no reference to it kept.
Write ==
    /\ handles.op = "adapter"
    /\ handles.at = "write"
    /\ LET exc == CASE arg.op = "parse_js" /\ arg.form = "stream" -> "TypeError"
                    [] arg.op # "parse_js" /\ arg.form = "str" /\ ~arg.encodable ->
                            "UnicodeEncodeError"
                    [] ~arg.writable -> "OSError"
                    [] OTHER -> "none"
       IN  IF exc = "none"
           THEN At("run", "open")
           ELSE IF arg.op = "parse_js"
                THEN /\ handles' = Handles("exit", "open", handles.caller)
                     /\ ret' = Raises(exc, "")
                ELSE Leave(Raises(exc, ""), "open")
    /\ UNCHANGED <<worker_vars, arg, tables>>

\* The external parser runs on the file: node('parse-js', name) in parse_js
\* (ErrorReturnCode_1 becomes ParseError), subprocess.run with check=True in
\* _tokenize, with check=False in check_syntax.
Run ==
    /\ handles.op = "adapter"
    /\ handles.at = "run"
    /\ ret' = CASE arg.op = "parse_js" ->
                    CASE arg.status = 0 -> Returns("tokens, ast")
                      [] arg.status = 1 -> Raises("ParseError", "")
                      [] OTHER -> Raises("ErrorReturnCode", "")
                [] arg.op = "tokenize" ->
                    IF arg.status = 0 THEN Returns("tokens")
                    ELSE Raises("CalledProcessError", "")
                [] arg.op = "check_syntax" ->
                    IF arg.status = 0 THEN Returns("True") ELSE Returns("False")
    /\ handles' = Handles("exit", handles.transient, handles.caller)
    /\ UNCHANGED <<worker_vars, arg, tables>>

\* The end of the with statement: NamedTemporaryFile.__exit__ closes the
\* file of parse_js; SafeSourceFile.__exit__ closes the file it owns and
\* leaves a foreign stream alone.
Exit ==
    /\ handles.op = "adapter"
    /\ handles.at = "exit"
    /\ handles' = Handles(ret.kind,
                          IF handles.transient = "open" THEN "closed"
                          ELSE handles.transient,
                          handles.caller)
    /\ UNCHANGED <<worker_vars, arg, ret, tables>>

\* The garbage collector closes an open file nothing refers to, some time
\* after the call has ended.
Finalize ==
    /\ handles.op = "adapter"
    /\ handles.at \in {"return", "raise"}
    /\ handles.transient = "open"
    /\ handles' = Handles(handles.at, "finalized", handles.caller)
    /\ UNCHANGED <<worker_vars, arg, ret, tables>>

NextAdapter == Enter \/ Write \/ Run \/ Exit \/ Finalize

SpecAdapter == InitAdapter /\ [][NextAdapter]_vars

\* C18: when the adapter has returned or raised, for every form of source
\* and on every exit path, a transient file it created is closed, and a
\* stream supplied by the caller is still open.
C18_TransientFileClosedOnEveryExit ==
    (handles.op = "adapter" /\ handles.at \in {"return", "raise"}) =>
        /\ handles.transient \in {"none", "closed"}
        /\ arg.form = "stream" => handles.caller = "open"

=============================================================================
